---- MODULE Spec2Model ----
(***************************************************************************)
(* Model of the rawboard leaderboard service                               *)
(* (internal/leaderboard/service.go, internal/models/player.go).           *)
(*                                                                         *)
(* The key-value store is a function from keys to records; a Go string is  *)
(* a sequence of one-byte characters; time.Now() is a counter that every   *)
(* read advances.                                                          *)
(***************************************************************************)
EXTENDS Integers, Sequences, FiniteSets, TLC

VARIABLES
    db,      \* the key-value store: key -> [present, data]
    now,     \* the clock read by time.Now()
    calls,   \* number of SubmitScore calls started so far
    last,    \* the call that returned last: its arguments and its outcome
    allOk,   \* per game: every SubmitScore on it so far returned success
    pc,      \* per thread: position inside SubmitScore
    arg,     \* per thread: the arguments of the call in progress
    loc,     \* per thread: the local variables of the call in progress
    acked,   \* the history entries of the calls that returned success
    legacy   \* per game: the entries of the leaderboard it started with

vars == <<db, now, calls, last, allOk, pc, arg, loc, acked, legacy>>

-----------------------------------------------------------------------------
(* Bounds of the model *)

MaxSubmits == 3       \* SubmitScore calls in one behaviour of Spec
MaxPrefill == 11      \* players already in the game in SpecTop's initial states
MaxTopSubmits == 2    \* SubmitScore calls in one behaviour of SpecTop
MaxAnalysisSubmits == 1   \* SubmitScore calls in one behaviour of SpecAnalysis
MaxConcCalls == 3     \* SubmitScore calls in one behaviour of SpecConc
MaxLegacyCalls == 3   \* calls in one behaviour of SpecLegacy
MaxFaultCalls == 3    \* SubmitScore calls in one behaviour of SpecFault
MaxAchPrefill == 9    \* scores the player already has in SpecAch's initial states
MaxCalcLen == 10      \* history entries of the player in SpecCalc's initial states
MaxCalcCalls == 2     \* GetEnhancedPlayerStats calls in one behaviour of SpecCalc
MaxQueryCalls == 2    \* calls in one behaviour of SpecQuery
MaxAchSubmits == 2    \* SubmitScore calls in one behaviour of SpecAch

(* Program constants *)

MaxScoreValue == 999999999   \* models/player.go: ScoreEntry.Validate
MaxEntries == 10             \* regenerateFilteredLeaderboard, Leaderboard.Validate
MaxGameIDLen == 50           \* Leaderboard.Validate
InitialsLen == 3             \* SubmitScore, ScoreEntry.Validate

-----------------------------------------------------------------------------
(* Strings: sequences of one-byte characters *)

LowerLetters == <<"a", "b", "c", "p">>
UpperLetters == <<"A", "B", "C", "P">>

\* unicode.IsSpace on the one-byte characters
IsSpace(c) == c \in {" ", "\t", "\n", "\r"}

\* unicode.ToUpper on one character
UpperOf(c) ==
    IF \E i \in 1..Len(LowerLetters) : LowerLetters[i] = c
    THEN UpperLetters[CHOOSE i \in 1..Len(LowerLetters) : LowerLetters[i] = c]
    ELSE c

\* strings.ToUpper
ToUpper(s) == [i \in 1..Len(s) |-> UpperOf(s[i])]

RECURSIVE TrimLeft(_)
TrimLeft(s) ==
    IF s # <<>> /\ IsSpace(Head(s)) THEN TrimLeft(Tail(s)) ELSE s

RECURSIVE TrimRight(_)
TrimRight(s) ==
    IF s # <<>> /\ IsSpace(s[Len(s)]) THEN TrimRight(SubSeq(s, 1, Len(s) - 1)) ELSE s

\* strings.TrimSpace
TrimSpace(s) == TrimRight(TrimLeft(s))

\* strings.Contains(s, " ")
ContainsSpace(s) == \E i \in 1..Len(s) : s[i] = " "

\* SubmitScore, line 29: initials = strings.ToUpper(strings.TrimSpace(initials))
NormalizeInitials(raw) == ToUpper(TrimSpace(raw))

InitialsRejectedMut(initials) == Len(initials) > InitialsLen \/ ContainsSpace(initials)

\* SubmitScore, line 30: len(initials) != 3 || strings.Contains(initials, " ")
InitialsRejected(initials) == Len(initials) # InitialsLen \/ ContainsSpace(initials)

-----------------------------------------------------------------------------
(* Inputs *)

GameIDs == {<<"t">>, <<"s">>}

RawInitials ==
    { <<"A", "A", "A">>,
      <<" ", "b", "b", "b", "\t">>,
      <<"a", "a", "a">>,
      <<"A", " ", "B">>,
      <<"A", "B">>,
      <<"A", "B", "C", "D">>,
      <<>> }

Scores == {-1, 1000, 2000, 1000000000}

\* the submitting threads of SpecConc
Threads == {1, 2}

-----------------------------------------------------------------------------
(* The store *)

AllScoresKeyMut(gameID) == <<"all_scores:">>

\* fmt.Sprintf("all_scores:%s", gameID)
AllScoresKey(gameID) == <<"all_scores:">> \o gameID

\* fmt.Sprintf("player_high_scores:%s", gameID)
HighScoresKey(gameID) == <<"player_high_scores:">> \o gameID

\* fmt.Sprintf("leaderboard:%s", gameID)
LeaderboardKey(gameID) == <<"leaderboard:">> \o gameID

\* a key the store does not hold: db.Get returns an error
Absent == [present |-> FALSE, data |-> <<>>]

Record(data) == [present |-> TRUE, data |-> data]

\* db.Get
Get(d, key) == IF key \in DOMAIN d THEN d[key] ELSE Absent

\* db.Set
Set(d, key, data) == (key :> Record(data)) @@ d

ScoreEntry(initials, score, timestamp) ==
    [initials |-> initials, score |-> score, timestamp |-> timestamp]

Range(f) == {f[x] : x \in DOMAIN f}

-----------------------------------------------------------------------------
(* models/player.go *)

\* ScoreEntry.Validate (on the copy the range loop hands it)
EntryValid(e) ==
    LET initials == NormalizeInitials(e.initials)
    IN  /\ Len(initials) = InitialsLen
        /\ ~ContainsSpace(initials)
        /\ e.score >= 0
        /\ e.score <= MaxScoreValue

\* Leaderboard.Validate, called by Leaderboard.MarshalJSON when the
\* leaderboard is encoded in saveLeaderboard
LeaderboardValid(gameID, entries) ==
    /\ TrimSpace(gameID) # <<>>
    /\ Len(gameID) <= MaxGameIDLen
    /\ Len(entries) <= MaxEntries
    /\ \A i \in 1..Len(entries) : EntryValid(entries[i])

-----------------------------------------------------------------------------
(* internal/leaderboard/service.go: the steps of SubmitScore *)

\* getAllScores: the decoded record, or an error when the key is missing
getAllScores(d, gameID) == Get(d, AllScoresKey(gameID))

\* getPlayerHighScores
getPlayerHighScores(d, gameID) == Get(d, HighScoresKey(gameID))

AppendedScoresMut(rec, entry) == <<entry>>

\* addToAllScores, lines 172-183: the record read (or an empty one when the
\* read failed) with the new entry appended
AppendedScores(rec, entry) ==
    Append(IF rec.present THEN rec.data ELSE <<>>, entry)

\* addToAllScores as one read-modify-write
addToAllScores(d, gameID, initials, score, timestamp) ==
    Set(d, AllScoresKey(gameID),
        AppendedScores(getAllScores(d, gameID), ScoreEntry(initials, score, timestamp)))

IsNewHighScoreMut(highScores, initials, score) == TRUE

\* updatePlayerHighScore, line 214: !exists || score > existingEntry.Score
IsNewHighScore(highScores, initials, score) ==
    initials \notin DOMAIN highScores \/ score > highScores[initials].score

\* updatePlayerHighScore, lines 202-210: the map read, or an empty one
HighScoresOf(rec) == IF rec.present THEN rec.data ELSE <<>>

\* updatePlayerHighScore, lines 216-220: the map with the player's entry set
WithHighScore(highScores, initials, score, timestamp) ==
    (initials :> ScoreEntry(initials, score, timestamp)) @@ highScores

\* updatePlayerHighScore as one read-modify-write; the record is written only
\* when the score is a new high score
updatePlayerHighScore(d, gameID, initials, score, timestamp) ==
    LET highScores == HighScoresOf(getPlayerHighScores(d, gameID))
    IN  IF IsNewHighScore(highScores, initials, score)
        THEN Set(d, HighScoresKey(gameID),
                 WithHighScore(highScores, initials, score, timestamp))
        ELSE d

BeforeLowestFirst(a, b) ==
    \/ a.score < b.score
    \/ a.score = b.score /\ a.timestamp > b.timestamp

BeforeMut(a, b) ==
    \/ a.score > b.score
    \/ a.score = b.score /\ a.timestamp < b.timestamp

\* regenerateFilteredLeaderboard, lines 252-258: the less function of the sort
Before(a, b) ==
    \/ a.score > b.score
    \/ a.score = b.score /\ a.timestamp > b.timestamp

\* sort.SliceStable over the entries of the map, which are ranged over in any
\* order: every sequence in which no entry comes after one it is Before
RECURSIVE SortStable(_)
SortStable(S) ==
    IF S = {} THEN {<<>>}
    ELSE UNION { { <<e>> \o rest : rest \in SortStable(S \ {e}) } :
                 e \in {x \in S : \A o \in S : ~Before(o, x)} }

TruncateMut(entries) ==
    IF Len(entries) > MaxEntries
    THEN SubSeq(entries, Len(entries) - MaxEntries + 1, Len(entries))
    ELSE entries

\* regenerateFilteredLeaderboard, lines 261-263
Truncate(entries) ==
    IF Len(entries) > MaxEntries THEN SubSeq(entries, 1, MaxEntries) ELSE entries

\* regenerateFilteredLeaderboard, lines 246-263: the leaderboards it can build
\* from the map it read
FilteredLeaderboards(highScores) == {Truncate(s) : s \in SortStable(Range(highScores))}

\* regenerateFilteredLeaderboard and saveLeaderboard: the outcomes [db, err]
regenerateFilteredLeaderboard(d, gameID) ==
    LET rec == getPlayerHighScores(d, gameID)
    IN  IF ~rec.present
        THEN {[db |-> d, err |-> "no_high_scores"]}
        ELSE { IF LeaderboardValid(gameID, entries)
               THEN [db |-> Set(d, LeaderboardKey(gameID), entries), err |-> "none"]
               ELSE [db |-> d, err |-> "marshal"] :
               entries \in FilteredLeaderboards(rec.data) }

\* SubmitScore, lines 27-46, run alone: the outcomes [db, now, err, initials]
\* of a call that starts with store d and clock t
SubmitOutcomes(d, t, gameID, raw, score) ==
    LET initials == NormalizeInitials(raw)
    IN  IF InitialsRejected(initials)
        THEN {[db |-> d, now |-> t, err |-> "initials", initials |-> initials]}
        ELSE LET d1 == addToAllScores(d, gameID, initials, score, t)
                 d2 == updatePlayerHighScore(d1, gameID, initials, score, t + 1)
             IN  { [db |-> r.db, now |-> t + 2, err |-> r.err, initials |-> initials] :
                   r \in regenerateFilteredLeaderboard(d2, gameID) }

-----------------------------------------------------------------------------
(* internal/leaderboard/service.go: SubmitScore on a store whose operations *)
(* can fail. fails is the set of the store operations of the call that      *)
(* return an error; a failed read stands for a db.Get error and for a       *)
(* payload that does not decode, a failed db.Set writes nothing. Each step  *)
(* gives [db, err, ops], ops being the store operations it made, in order.  *)

StoreOps == {"history_get", "history_set", "index_get", "index_set",
             "board_get", "board_set"}

StoreOp(op, key) == [op |-> op, key |-> key]

\* getAllScores, lines 279-288: any error of db.Get or of the decoder is the
\* error returned
getAllScoresFaulty(d, gameID, fails) ==
    IF "history_get" \in fails THEN Absent ELSE getAllScores(d, gameID)

\* getPlayerHighScores, lines 297-306
getPlayerHighScoresFaulty(d, gameID, failed) ==
    IF failed THEN Absent ELSE getPlayerHighScores(d, gameID)

\* addToAllScores, lines 161-195
addToAllScoresFaulty(d, gameID, initials, score, timestamp, fails) ==
    LET key == AllScoresKey(gameID)
        rec == getAllScoresFaulty(d, gameID, fails)
        scores == AppendedScores(rec, ScoreEntry(initials, score, timestamp))
        ops == <<StoreOp("get", key), StoreOp("set", key)>>
    IN  IF "history_set" \in fails
        THEN [db |-> d, err |-> "history", ops |-> ops]
        ELSE [db |-> Set(d, key, scores), err |-> "none", ops |-> ops]

\* updatePlayerHighScore, lines 198-235
updatePlayerHighScoreFaulty(d, gameID, initials, score, timestamp, fails) ==
    LET key == HighScoresKey(gameID)
        rec == getPlayerHighScoresFaulty(d, gameID, "index_get" \in fails)
        highScores == HighScoresOf(rec)
    IN  IF ~IsNewHighScore(highScores, initials, score)
        THEN [db |-> d, err |-> "none", ops |-> <<StoreOp("get", key)>>]
        ELSE IF "index_set" \in fails
        THEN [db |-> d, err |-> "index",
              ops |-> <<StoreOp("get", key), StoreOp("set", key)>>]
        ELSE [db |-> Set(d, key, WithHighScore(highScores, initials, score, timestamp)),
              err |-> "none",
              ops |-> <<StoreOp("get", key), StoreOp("set", key)>>]

\* regenerateFilteredLeaderboard, lines 238-273, and saveLeaderboard, lines
\* 142-158: the outcomes
regenerateFilteredLeaderboardFaulty(d, gameID, fails) ==
    LET rec == getPlayerHighScoresFaulty(d, gameID, "board_get" \in fails)
        read == <<StoreOp("get", HighScoresKey(gameID))>>
        write == <<StoreOp("set", LeaderboardKey(gameID))>>
    IN  IF ~rec.present
        THEN {[db |-> d, err |-> "no_high_scores", ops |-> read]}
        ELSE { IF ~LeaderboardValid(gameID, entries)
               THEN [db |-> d, err |-> "marshal", ops |-> read]
               ELSE IF "board_set" \in fails
               THEN [db |-> d, err |-> "board", ops |-> read \o write]
               ELSE [db |-> Set(d, LeaderboardKey(gameID), entries), err |-> "none",
                     ops |-> read \o write] :
               entries \in FilteredLeaderboards(rec.data) }

ContinuesMut(r) == TRUE

\* SubmitScore, lines 35 and 40: if err != nil { return ... }
Continues(r) == r.err = "none"

\* SubmitScore, lines 27-46: the outcomes [db, now, err, initials, ops] of a
\* call that starts with store d and clock t
SubmitOutcomesFaulty(d, t, gameID, raw, score, fails) ==
    LET initials == NormalizeInitials(raw)
        a == addToAllScoresFaulty(d, gameID, initials, score, t, fails)
        u == updatePlayerHighScoreFaulty(a.db, gameID, initials, score, t + 1, fails)
        out(store, err, ops) == [db |-> store, now |-> t + 2, err |-> err,
                                 initials |-> initials, ops |-> ops]
    IN  IF InitialsRejected(initials)
        THEN {[db |-> d, now |-> t, err |-> "initials", initials |-> initials,
               ops |-> <<>>]}
        ELSE IF ~Continues(a) THEN {out(a.db, a.err, a.ops)}
        ELSE IF ~Continues(u) THEN {out(u.db, u.err, a.ops \o u.ops)}
        ELSE { out(r.db, r.err, a.ops \o u.ops \o r.ops) :
               r \in regenerateFilteredLeaderboardFaulty(u.db, gameID, fails) }

-----------------------------------------------------------------------------
(* internal/leaderboard/service.go: the queries, as functions of the store *)

\* GetLeaderboard, lines 114-139: [err, entries]. With the key missing,
\* MigrateExistingLeaderboard finds no raw leaderboard either and the second
\* read fails again.
GetLeaderboard(d, gameID) ==
    LET rec == Get(d, LeaderboardKey(gameID))
    IN  IF rec.present THEN [err |-> FALSE, entries |-> rec.data]
        ELSE [err |-> TRUE, entries |-> <<>>]

\* GetAllScoresForGame: [err, scores]
GetAllScoresForGame(d, gameID) ==
    LET rec == getAllScores(d, gameID)
    IN  IF rec.present THEN [err |-> FALSE, scores |-> rec.data]
        ELSE [err |-> TRUE, scores |-> <<>>]

\* the entries of a history whose initials are the given ones, in order
RECURSIVE PlayerScores(_, _)
PlayerScores(scores, initials) ==
    IF scores = <<>> THEN <<>>
    ELSE IF Head(scores).initials = initials
         THEN <<Head(scores)>> \o PlayerScores(Tail(scores), initials)
         ELSE PlayerScores(Tail(scores), initials)

HighScoreFromMut(highScore, playerScores) ==
    IF playerScores = <<>> THEN highScore
    ELSE playerScores[Len(playerScores)].score

\* GetPlayerStats, lines 357-364: the running maximum, which starts at 0
RECURSIVE HighScoreFrom(_, _)
HighScoreFrom(highScore, playerScores) ==
    IF playerScores = <<>> THEN highScore
    ELSE HighScoreFrom(IF Head(playerScores).score > highScore
                       THEN Head(playerScores).score ELSE highScore,
                       Tail(playerScores))

\* GetPlayerStats, lines 366-376: the earliest timestamp, from the first
\* entry's on
RECURSIVE FirstPlayedFrom(_, _)
FirstPlayedFrom(firstPlayed, playerScores) ==
    IF playerScores = <<>> THEN firstPlayed
    ELSE FirstPlayedFrom(IF Head(playerScores).timestamp < firstPlayed
                         THEN Head(playerScores).timestamp ELSE firstPlayed,
                         Tail(playerScores))

\* GetPlayerStats, lines 366-376: the latest timestamp
RECURSIVE LastPlayedFrom(_, _)
LastPlayedFrom(lastPlayed, playerScores) ==
    IF playerScores = <<>> THEN lastPlayed
    ELSE LastPlayedFrom(IF Head(playerScores).timestamp > lastPlayed
                        THEN Head(playerScores).timestamp ELSE lastPlayed,
                        Tail(playerScores))

\* GetPlayerStats, lines 332-390: [err, highScore, totalScores, firstPlayed,
\* lastPlayed]
GetPlayerStats(d, gameID, rawInitials) ==
    LET initials == NormalizeInitials(rawInitials)
        rec == getAllScores(d, gameID)
        playerScores == PlayerScores(rec.data, initials)
        failed == [err |-> TRUE, highScore |-> 0, totalScores |-> 0,
                   firstPlayed |-> 0, lastPlayed |-> 0]
    IN  IF Len(initials) # InitialsLen THEN failed
        ELSE IF ~rec.present THEN failed
        ELSE IF Len(playerScores) = 0 THEN failed
        ELSE [err |-> FALSE,
              highScore |-> HighScoreFrom(0, playerScores),
              totalScores |-> Len(playerScores),
              firstPlayed |-> FirstPlayedFrom(Head(playerScores).timestamp,
                                              Tail(playerScores)),
              lastPlayed |-> LastPlayedFrom(Head(playerScores).timestamp,
                                            Tail(playerScores))]

\* the players with an entry in a history
PlayersIn(scores) == {scores[i].initials : i \in 1..Len(scores)}

\* GetEnhancedPlayerStats, lines 532-541: the player's rank on the
\* leaderboard, 0 for none
CurrentRank(d, gameID, initials) ==
    LET lb == GetLeaderboard(d, gameID)
        at == {i \in 1..Len(lb.entries) : lb.entries[i].initials = initials}
    IN  IF lb.err \/ at = {} THEN 0
        ELSE CHOOSE i \in at : \A j \in at : i <= j

SortByTimestampMut(playerScores) == playerScores

\* calculateAchievements, lines 406-408: the scores by timestamp, earliest
\* first (the timestamps of one player's entries differ)
RECURSIVE InsertByTimestamp(_, _)
InsertByTimestamp(entry, sorted) ==
    IF sorted = <<>> THEN <<entry>>
    ELSE IF entry.timestamp < Head(sorted).timestamp THEN <<entry>> \o sorted
    ELSE <<Head(sorted)>> \o InsertByTimestamp(entry, Tail(sorted))

RECURSIVE SortByTimestamp(_)
SortByTimestamp(playerScores) ==
    IF playerScores = <<>> THEN <<>>
    ELSE InsertByTimestamp(Head(playerScores), SortByTimestamp(Tail(playerScores)))

\* calculateAchievements, lines 422-433
Milestones ==
    <<[score |-> 1000, id |-> "score_1k"],
      [score |-> 5000, id |-> "score_5k"],
      [score |-> 10000, id |-> "score_10k"],
      [score |-> 25000, id |-> "score_25k"],
      [score |-> 50000, id |-> "score_50k"]>>

\* calculateAchievements, line 457
DedicatedPlayerScores == 5

\* calculateAchievements, line 467
ScoreHunterScores == 10

\* the zero time.Time
ZeroTime == 0

MilestoneReachedMut(highScore, milestone) == highScore > milestone.score

\* calculateAchievements, line 436
MilestoneReached(highScore, milestone) == highScore >= milestone.score

\* calculateAchievements, lines 438-444: the timestamp of the first score, in
\* time order, that reaches the milestone
RECURSIVE FirstReachedAt(_, _)
FirstReachedAt(playerScores, milestone) ==
    IF playerScores = <<>> THEN ZeroTime
    ELSE IF Head(playerScores).score >= milestone.score
         THEN Head(playerScores).timestamp
    ELSE FirstReachedAt(Tail(playerScores), milestone)

Achievement(id, unlockedAt) == [id |-> id, unlockedAt |-> unlockedAt]

\* calculateAchievements, lines 435-454: the milestone achievements from the
\* i-th milestone on
RECURSIVE MilestoneAchievements(_, _, _)
MilestoneAchievements(sorted, highScore, i) ==
    IF i > Len(Milestones) THEN <<>>
    ELSE (IF MilestoneReached(highScore, Milestones[i])
          THEN <<Achievement(Milestones[i].id, FirstReachedAt(sorted, Milestones[i]))>>
          ELSE <<>>)
         \o MilestoneAchievements(sorted, highScore, i + 1)

\* calculateAchievements, lines 398-478
calculateAchievements(playerScores, highScore) ==
    IF Len(playerScores) = 0 THEN <<>>
    ELSE LET sorted == SortByTimestamp(playerScores)
         IN  <<Achievement("first_score", sorted[1].timestamp)>>
             \o MilestoneAchievements(sorted, highScore, 1)
             \o (IF Len(sorted) >= DedicatedPlayerScores
                 THEN <<Achievement("dedicated_player",
                                    sorted[DedicatedPlayerScores].timestamp)>>
                 ELSE <<>>)
             \o (IF Len(sorted) >= ScoreHunterScores
                 THEN <<Achievement("score_hunter",
                                    sorted[ScoreHunterScores].timestamp)>>
                 ELSE <<>>)

\* GetEnhancedPlayerStats, lines 481-564: [err, initials, highScore,
\* totalScores, currentRank, achievements]
GetEnhancedPlayerStats(d, gameID, rawInitials) ==
    LET initials == NormalizeInitials(rawInitials)
        rec == getAllScores(d, gameID)
        playerScores == PlayerScores(rec.data, initials)
        failed == [err |-> TRUE, initials |-> initials, highScore |-> 0,
                   totalScores |-> 0, currentRank |-> 0, achievements |-> <<>>]
    IN  IF Len(initials) # InitialsLen THEN failed
        ELSE IF ~rec.present THEN failed
        ELSE IF Len(playerScores) = 0 THEN failed
        ELSE [err |-> FALSE,
              initials |-> initials,
              highScore |-> HighScoreFrom(0, playerScores),
              totalScores |-> Len(playerScores),
              currentRank |-> CurrentRank(d, gameID, initials),
              achievements |-> calculateAchievements(playerScores,
                                  HighScoreFrom(0, playerScores))]

ClampLimitMut(topPlayersLimit) ==
    IF topPlayersLimit < 1 THEN 1
    ELSE IF topPlayersLimit > MaxEntries THEN MaxEntries
    ELSE topPlayersLimit

\* GetScoreAnalysis, lines 606-609: limit <= 0 || limit > 10 gives 10
ClampLimit(topPlayersLimit) ==
    IF topPlayersLimit <= 0 \/ topPlayersLimit > MaxEntries THEN MaxEntries
    ELSE topPlayersLimit

\* GetScoreAnalysis, lines 611-620: the stats of the first limit entries of
\* the leaderboard, those that GetEnhancedPlayerStats fails on left out
RECURSIVE TopPlayersOf(_, _, _, _)
TopPlayersOf(d, gameID, entries, limit) ==
    IF entries = <<>> \/ limit <= 0 THEN <<>>
    ELSE LET stats == GetEnhancedPlayerStats(d, gameID, Head(entries).initials)
             rest == TopPlayersOf(d, gameID, Tail(entries), limit - 1)
         IN  IF stats.err THEN rest ELSE <<stats>> \o rest

\* GetScoreAnalysis, lines 624-634
ScoreRanges ==
    <<[min |-> 0, max |-> 999, label |-> "0-999"],
      [min |-> 1000, max |-> 4999, label |-> "1K-5K"],
      [min |-> 5000, max |-> 9999, label |-> "5K-10K"],
      [min |-> 10000, max |-> 24999, label |-> "10K-25K"],
      [min |-> 25000, max |-> 49999, label |-> "25K-50K"],
      [min |-> 50000, max |-> 999999999, label |-> "50K+"]>>

\* GetScoreAnalysis, line 638
InScoreRange(score, r) == score >= r.min /\ score <= r.max

\* GetScoreAnalysis, lines 637-642: the label of the first range that holds
\* the score, from the i-th range on; "" when none does
RECURSIVE LabelFrom(_, _)
LabelFrom(score, i) ==
    IF i > Len(ScoreRanges) THEN ""
    ELSE IF InScoreRange(score, ScoreRanges[i]) THEN ScoreRanges[i].label
    ELSE LabelFrom(score, i + 1)

\* GetScoreAnalysis, lines 623-643: the map from label to count; a label no
\* score falls under is not a key
ScoreDistribution(scores) ==
    LET labels == {LabelFrom(scores[i].score, 1) : i \in 1..Len(scores)} \ {""}
    IN  [label \in labels |->
            Cardinality({i \in 1..Len(scores) : LabelFrom(scores[i].score, 1) = label})]

\* GetScoreAnalysis, lines 567-678: [err, totalPlayers, totalScores,
\* highestScore, topPlayers, scoreDistribution]. The error of GetLeaderboard
\* is dropped and the
\* nil leaderboard dereferenced: the call panics.
GetScoreAnalysis(d, gameID, topPlayersLimit) ==
    LET rec == getAllScores(d, gameID)
        lb == GetLeaderboard(d, gameID)
        failed(err) == [err |-> err, totalPlayers |-> 0, totalScores |-> 0,
                        highestScore |-> 0, topPlayers |-> <<>>,
                        scoreDistribution |-> <<>>]
    IN  IF ~rec.present THEN failed("history")
        ELSE IF Len(rec.data) = 0 THEN failed("no_scores")
        ELSE IF lb.err THEN failed("panic")
        ELSE [err |-> "none",
              totalPlayers |-> Cardinality(PlayersIn(rec.data)),
              totalScores |-> Len(rec.data),
              highestScore |-> HighScoreFrom(0, rec.data),
              topPlayers |-> TopPlayersOf(d, gameID, lb.entries,
                                          ClampLimit(topPlayersLimit)),
              scoreDistribution |-> ScoreDistribution(rec.data)]

-----------------------------------------------------------------------------
(* internal/leaderboard/service.go: MigrateExistingLeaderboard *)

RECURSIVE MigratedHighScoresMut(_, _)
MigratedHighScoresMut(highScores, entries) ==
    IF entries = <<>> THEN highScores
    ELSE MigratedHighScoresMut((Head(entries).initials :> Head(entries)) @@ highScores,
                               Tail(entries))

\* MigrateExistingLeaderboard, lines 721-726: the highest score of each
\* initials, the first of equal scores kept
RECURSIVE MigratedHighScores(_, _)
MigratedHighScores(highScores, entries) ==
    IF entries = <<>> THEN highScores
    ELSE LET entry == Head(entries)
         IN  MigratedHighScores(
                 IF entry.initials \notin DOMAIN highScores
                    \/ entry.score > highScores[entry.initials].score
                 THEN (entry.initials :> entry) @@ highScores
                 ELSE highScores,
                 Tail(entries))

AlreadyMigratedMut(d, gameID) == FALSE

\* MigrateExistingLeaderboard, lines 691-696: the all_scores record is there
AlreadyMigrated(d, gameID) == getAllScores(d, gameID).present

\* MigrateExistingLeaderboard, lines 682-742: the outcomes [db, now, err] of
\* a call that starts with store d and clock t
MigrateOutcomes(d, t, gameID) ==
    LET raw == Get(d, LeaderboardKey(gameID))
    IN  IF ~raw.present \/ AlreadyMigrated(d, gameID)
        THEN {[db |-> d, now |-> t, err |-> "none"]}
        ELSE LET d1 == Set(d, AllScoresKey(gameID), raw.data)
                 d2 == Set(d1, HighScoresKey(gameID), MigratedHighScores(<<>>, raw.data))
             IN  { [db |-> r.db, now |-> t + 2, err |-> r.err] :
                   r \in regenerateFilteredLeaderboard(d2, gameID) }

\* GetLeaderboard, lines 114-139, as a call on the store: the outcomes
\* [db, now, err, entries] of a call that starts with store d and clock t.
\* When the first read fails the migration runs and the record is read again.
GetLeaderboardOutcomes(d, t, gameID) ==
    LET rec == Get(d, LeaderboardKey(gameID))
    IN  IF rec.present
        THEN {[db |-> d, now |-> t, err |-> "none", entries |-> rec.data]}
        ELSE { IF m.err # "none"
               THEN [db |-> m.db, now |-> m.now, err |-> "migration", entries |-> <<>>]
               ELSE LET again == Get(m.db, LeaderboardKey(gameID))
                    IN  IF again.present
                        THEN [db |-> m.db, now |-> m.now, err |-> "none",
                              entries |-> again.data]
                        ELSE [db |-> m.db, now |-> m.now, err |-> "not_found",
                              entries |-> <<>>] :
               m \in MigrateOutcomes(d, t, gameID) }

-----------------------------------------------------------------------------
(* The queries as calls on a store whose reads may fail *)

\* the reads of a query: getAllScores in the query itself; in GetLeaderboard
\* the first db.Get, then in MigrateExistingLeaderboard getRawLeaderboard and
\* getAllScores, then the second db.Get
QueryOps == {"history_get", "board_get", "raw_get", "migrated_get", "again_get"}

NothingToMigrateMut(raw) == FALSE

\* MigrateExistingLeaderboard, lines 684-688: getRawLeaderboard failed
NothingToMigrate(raw) == ~raw.present

\* MigrateExistingLeaderboard, lines 682-742, on a store whose reads in fails
\* fail: the outcomes [db, now, err]
MigrateOutcomesFaulty(d, t, gameID, fails) ==
    LET raw == IF "raw_get" \in fails THEN Absent ELSE Get(d, LeaderboardKey(gameID))
        migrated == "migrated_get" \notin fails /\ AlreadyMigrated(d, gameID)
    IN  IF NothingToMigrate(raw) \/ migrated
        THEN {[db |-> d, now |-> t, err |-> "none"]}
        ELSE LET d1 == Set(d, AllScoresKey(gameID), raw.data)
                 d2 == Set(d1, HighScoresKey(gameID), MigratedHighScores(<<>>, raw.data))
             IN  { [db |-> r.db, now |-> t + 2, err |-> r.err] :
                   r \in regenerateFilteredLeaderboard(d2, gameID) }

\* GetLeaderboard, lines 114-139, on a store whose reads in fails fail: the
\* outcomes [db, now, err, entries]
GetLeaderboardOutcomesFaulty(d, t, gameID, fails) ==
    LET rec == IF "board_get" \in fails THEN Absent ELSE Get(d, LeaderboardKey(gameID))
    IN  IF rec.present
        THEN {[db |-> d, now |-> t, err |-> "none", entries |-> rec.data]}
        ELSE { IF m.err # "none"
               THEN [db |-> m.db, now |-> m.now, err |-> "migration", entries |-> <<>>]
               ELSE LET again == IF "again_get" \in fails THEN Absent
                                 ELSE Get(m.db, LeaderboardKey(gameID))
                    IN  IF again.present
                        THEN [db |-> m.db, now |-> m.now, err |-> "none",
                              entries |-> again.data]
                        ELSE [db |-> m.db, now |-> m.now, err |-> "not_found",
                              entries |-> <<>>] :
               m \in MigrateOutcomesFaulty(d, t, gameID, fails) }

\* GetPlayerStats, lines 332-390, and GetAllScoresForGame, lines 393-395:
\* getAllScores is their only store operation
HistoryQueryOutcomes(d, t, gameID, fails) ==
    LET rec == getAllScoresFaulty(d, gameID, fails)
    IN  {[db |-> d, now |-> t, err |-> IF rec.present THEN "none" ELSE "history"]}

\* GetEnhancedPlayerStats, lines 481-564: GetLeaderboard is called once the
\* player's scores are found
EnhancedStatsOutcomes(d, t, gameID, rawInitials, fails) ==
    LET initials == NormalizeInitials(rawInitials)
        rec == getAllScoresFaulty(d, gameID, fails)
        failed(err) == {[db |-> d, now |-> t, err |-> err]}
    IN  IF Len(initials) # InitialsLen THEN failed("initials")
        ELSE IF ~rec.present THEN failed("history")
        ELSE IF Len(PlayerScores(rec.data, initials)) = 0 THEN failed("no_scores")
        ELSE { [db |-> r.db, now |-> r.now, err |-> "none"] :
               r \in GetLeaderboardOutcomesFaulty(d, t, gameID, fails) }

\* GetScoreAnalysis, lines 567-678: GetLeaderboard is called once the history
\* is found to hold scores; its error is dropped and a nil leaderboard is
\* dereferenced. The calls of GetEnhancedPlayerStats for the players of the
\* leaderboard find the leaderboard record, which was just read.
ScoreAnalysisOutcomes(d, t, gameID, fails) ==
    LET rec == getAllScoresFaulty(d, gameID, fails)
        failed(err) == {[db |-> d, now |-> t, err |-> err]}
    IN  IF ~rec.present THEN failed("history")
        ELSE IF Len(rec.data) = 0 THEN failed("no_scores")
        ELSE { [db |-> r.db, now |-> r.now,
                err |-> IF r.err = "none" THEN "none" ELSE "panic"] :
               r \in GetLeaderboardOutcomesFaulty(d, t, gameID, fails) }

-----------------------------------------------------------------------------
(* Spec: SubmitScore calls run one after another on an empty store *)

NoCall == [op |-> "none", game |-> <<>>, raw |-> <<>>, initials |-> <<>>,
           score |-> 0, err |-> "none", entries |-> <<>>, fails |-> {}, ops |-> <<>>]

Init ==
    /\ db = <<>>
    /\ now = 1
    /\ calls = 0
    /\ last = NoCall
    /\ allOk = [g \in GameIDs |-> TRUE]
    /\ pc = [t \in Threads |-> "idle"]
    /\ arg = [t \in Threads |-> NoCall]
    /\ loc = [t \in Threads |-> <<>>]
    /\ acked = {}
    /\ legacy = [g \in GameIDs |-> <<>>]

\* one whole SubmitScore call
SubmitScore(gameID, raw, score) ==
    /\ \E r \in SubmitOutcomes(db, now, gameID, raw, score) :
        /\ db' = r.db
        /\ now' = r.now
        /\ last' = [op |-> "SubmitScore", game |-> gameID, raw |-> raw,
                    initials |-> r.initials, score |-> score, err |-> r.err,
                    entries |-> <<>>, fails |-> {}, ops |-> <<>>]
        /\ allOk' = [allOk EXCEPT ![gameID] = @ /\ r.err = "none"]
    /\ calls' = calls + 1
    /\ UNCHANGED <<pc, arg, loc, acked, legacy>>

Next ==
    \E gameID \in GameIDs, raw \in RawInitials, score \in Scores :
        calls < MaxSubmits /\ SubmitScore(gameID, raw, score)

Spec == Init /\ [][Next]_vars

-----------------------------------------------------------------------------
(* SpecTop: SubmitScore calls on a game to which players P00, P01, ... have *)
(* each submitted one score, as in the service's top-10 test                *)

Digits == <<"0", "1", "2", "3", "4", "5", "6", "7", "8", "9">>

\* fmt.Sprintf("P%02d", i)
Player(i) == <<"P", Digits[(i \div 10) + 1], Digits[(i % 10) + 1]>>

TopGame == <<"t">>

Patterns == {"ascending", "descending", "flat"}

\* the score the i-th player submitted
PrefillScore(pattern, i) ==
    CASE pattern = "ascending" -> i * 100
      [] pattern = "descending" -> (20 - i) * 100
      [] pattern = "flat" -> 500

\* the store and the clock after players i..k-1 have submitted, one call
\* after another, to the store and the clock of st
RECURSIVE SubmittedFrom(_, _, _, _)
SubmittedFrom(st, i, k, pattern) ==
    IF i >= k THEN st
    ELSE LET r == CHOOSE r \in SubmitOutcomes(st.db, st.now, TopGame, Player(i),
                                              PrefillScore(pattern, i)) : TRUE
         IN  IF r.err = "none"
             THEN SubmittedFrom([db |-> r.db, now |-> r.now], i + 1, k, pattern)
             ELSE st

\* the store and the clock after players 0..k-1 have submitted
Prefilled(k, pattern) == SubmittedFrom([db |-> <<>>, now |-> 1], 0, k, pattern)

TopInitials == {Player(0), <<"a", "a", "a">>, <<"b", "b", "b">>, <<"A", "B">>}

TopScores == {-1, 50, 650, 5000, 1000000000}

InitTop ==
    \E k \in 0..MaxPrefill, pattern \in Patterns :
        /\ db = Prefilled(k, pattern).db
        /\ now = Prefilled(k, pattern).now
        /\ calls = 0
        /\ last = NoCall
        /\ allOk = [g \in GameIDs |-> TRUE]
        /\ pc = [t \in Threads |-> "idle"]
        /\ arg = [t \in Threads |-> NoCall]
        /\ loc = [t \in Threads |-> <<>>]
        /\ acked = {}
        /\ legacy = [g \in GameIDs |-> <<>>]

NextTop ==
    \E raw \in TopInitials, score \in TopScores :
        calls < MaxTopSubmits /\ SubmitScore(TopGame, raw, score)

SpecTop == InitTop /\ [][NextTop]_vars

\* SpecAnalysis: a SubmitScore call on a game that already has players, after
\* which GetScoreAnalysis is asked for the top players
NextAnalysis ==
    \E raw \in TopInitials, score \in TopScores :
        calls < MaxAnalysisSubmits /\ SubmitScore(TopGame, raw, score)

SpecAnalysis == InitTop /\ [][NextAnalysis]_vars

-----------------------------------------------------------------------------
(* SpecAch: SubmitScore calls on a game to which the player ACH has         *)
(* submitted a number of scores of 500, as in the achievement tests         *)

AchGame == <<"t">>

AchPlayer == <<"A", "C", "H">>

AchPrefillScore == 500

AchInitials == {AchPlayer, <<"b", "b", "b">>}

AchScores == {-1, 500, 1000, 1200, 5500, 25000, 50000}

\* the store and the clock after ACH has submitted k more scores, one call
\* after another, to the store and the clock of st
RECURSIVE AchSubmitted(_, _)
AchSubmitted(st, k) ==
    IF k <= 0 THEN st
    ELSE LET r == CHOOSE r \in SubmitOutcomes(st.db, st.now, AchGame, AchPlayer,
                                              AchPrefillScore) : TRUE
         IN  IF r.err = "none"
             THEN AchSubmitted([db |-> r.db, now |-> r.now], k - 1)
             ELSE st

InitAch ==
    \E k \in 0..MaxAchPrefill :
        /\ db = AchSubmitted([db |-> <<>>, now |-> 1], k).db
        /\ now = AchSubmitted([db |-> <<>>, now |-> 1], k).now
        /\ calls = 0
        /\ last = NoCall
        /\ allOk = [g \in GameIDs |-> TRUE]
        /\ pc = [t \in Threads |-> "idle"]
        /\ arg = [t \in Threads |-> NoCall]
        /\ loc = [t \in Threads |-> <<>>]
        /\ acked = {}
        /\ legacy = [g \in GameIDs |-> <<>>]

NextAch ==
    \E raw \in AchInitials, score \in AchScores :
        calls < MaxAchSubmits /\ SubmitScore(AchGame, raw, score)

SpecAch == InitAch /\ [][NextAch]_vars

-----------------------------------------------------------------------------
(* SpecLegacy: SubmitScore and MigrateExistingLeaderboard calls run one     *)
(* after another on a store in which games may hold a leaderboard written   *)
(* by submitScoreLegacy: every score kept, sorted, no history and no index  *)

\* the leaderboard of the README's migration example
LegacyEntries ==
    <<ScoreEntry(<<"A", "A", "A">>, 5000, 1),
      ScoreEntry(<<"B", "B", "B">>, 4000, 2),
      ScoreEntry(<<"A", "A", "A">>, 3000, 3)>>

\* the store in which the games of S hold the legacy leaderboard
LegacyStore(S) ==
    IF S = {} THEN <<>>
    ELSE [key \in {LeaderboardKey(g) : g \in S} |-> Record(LegacyEntries)]

LegacyInitials == {<<"A", "A", "A">>, <<" ", "c", "c", "c", "\t">>, <<"A", " ", "B">>}

LegacyScores == {-1, 1000, 6000}

Limits == {0, 1, 10}

InitLegacy ==
    \E S \in SUBSET GameIDs :
        /\ db = LegacyStore(S)
        /\ now = Len(LegacyEntries) + 1
        /\ calls = 0
        /\ last = NoCall
        /\ allOk = [g \in GameIDs |-> TRUE]
        /\ pc = [t \in Threads |-> "idle"]
        /\ arg = [t \in Threads |-> NoCall]
        /\ loc = [t \in Threads |-> <<>>]
        /\ acked = {}
        /\ legacy = [g \in GameIDs |-> IF g \in S THEN LegacyEntries ELSE <<>>]

\* one whole GetLeaderboard call
CallGetLeaderboard(gameID) ==
    /\ \E r \in GetLeaderboardOutcomes(db, now, gameID) :
        /\ db' = r.db
        /\ now' = r.now
        /\ last' = [op |-> "GetLeaderboard", game |-> gameID, raw |-> <<>>,
                    initials |-> <<>>, score |-> 0, err |-> r.err,
                    entries |-> r.entries, fails |-> {}, ops |-> <<>>]
    /\ calls' = calls + 1
    /\ UNCHANGED <<allOk, pc, arg, loc, acked, legacy>>

\* one whole MigrateExistingLeaderboard call
MigrateExistingLeaderboard(gameID) ==
    /\ \E r \in MigrateOutcomes(db, now, gameID) :
        /\ db' = r.db
        /\ now' = r.now
        /\ last' = [op |-> "MigrateExistingLeaderboard", game |-> gameID, raw |-> <<>>,
                    initials |-> <<>>, score |-> 0, err |-> r.err,
                    entries |-> <<>>, fails |-> {}, ops |-> <<>>]
    /\ calls' = calls + 1
    /\ UNCHANGED <<allOk, pc, arg, loc, acked, legacy>>

NextLegacy ==
    \/ \E gameID \in GameIDs, raw \in LegacyInitials, score \in LegacyScores :
           calls < MaxLegacyCalls /\ SubmitScore(gameID, raw, score)
    \/ \E gameID \in GameIDs :
           calls < MaxLegacyCalls /\ MigrateExistingLeaderboard(gameID)
    \/ \E gameID \in GameIDs :
           calls < MaxLegacyCalls /\ CallGetLeaderboard(gameID)

SpecLegacy == InitLegacy /\ [][NextLegacy]_vars

\* SpecAccess: as SpecLegacy, with no call of MigrateExistingLeaderboard
\* other than those GetLeaderboard makes
NextAccess ==
    \/ \E gameID \in GameIDs, raw \in LegacyInitials, score \in LegacyScores :
           calls < MaxLegacyCalls /\ SubmitScore(gameID, raw, score)
    \/ \E gameID \in GameIDs :
           calls < MaxLegacyCalls /\ CallGetLeaderboard(gameID)

SpecAccess == InitLegacy /\ [][NextAccess]_vars

-----------------------------------------------------------------------------
(* SpecQuery: SubmitScore calls and queries run one after another on a game *)
(* that may hold a legacy leaderboard; at most one read fails in each query *)

QueryGame == <<"t">>

QueryInitials == {<<"A", "A", "A">>, <<"b", "b", "b">>}

QueryScores == {-1, 1000}

QueryLimits == {1, 10}

QueryFaultSets == {{}} \cup {{op} : op \in QueryOps}

Queries ==
    {"GetLeaderboard", "GetPlayerStats", "GetEnhancedPlayerStats",
     "GetScoreAnalysis", "GetAllScoresForGame"}

\* the outcomes [db, now, err] of one query
QueryOutcomes(query, d, t, gameID, raw, fails) ==
    CASE query = "GetLeaderboard" ->
            { [db |-> r.db, now |-> r.now, err |-> r.err] :
              r \in GetLeaderboardOutcomesFaulty(d, t, gameID, fails) }
      [] query = "GetPlayerStats" ->
            IF Len(NormalizeInitials(raw)) # InitialsLen
            THEN {[db |-> d, now |-> t, err |-> "initials"]}
            ELSE HistoryQueryOutcomes(d, t, gameID, fails)
      [] query = "GetEnhancedPlayerStats" ->
            EnhancedStatsOutcomes(d, t, gameID, raw, fails)
      [] query = "GetScoreAnalysis" -> ScoreAnalysisOutcomes(d, t, gameID, fails)
      [] query = "GetAllScoresForGame" -> HistoryQueryOutcomes(d, t, gameID, fails)

\* one whole call of a query
CallQuery(query, gameID, raw, fails) ==
    /\ \E r \in QueryOutcomes(query, db, now, gameID, raw, fails) :
        /\ db' = r.db
        /\ now' = r.now
        /\ last' = [op |-> query, game |-> gameID, raw |-> raw,
                    initials |-> NormalizeInitials(raw), score |-> 0, err |-> r.err,
                    entries |-> <<>>, fails |-> fails, ops |-> <<>>]
    /\ calls' = calls + 1
    /\ UNCHANGED <<allOk, pc, arg, loc, acked, legacy>>

NextQuery ==
    \/ \E raw \in QueryInitials, score \in QueryScores :
           calls < MaxQueryCalls /\ SubmitScore(QueryGame, raw, score)
    \/ \E query \in Queries, raw \in QueryInitials, fails \in QueryFaultSets :
           calls < MaxQueryCalls /\ CallQuery(query, QueryGame, raw, fails)

SpecQuery == InitLegacy /\ [][NextQuery]_vars

-----------------------------------------------------------------------------
(* SpecCalc: GetEnhancedPlayerStats, and with it calculateAchievements, on  *)
(* histories of one player drawn from a bounded set: the scores follow a    *)
(* pattern in time, the entries are recorded in time order or out of it     *)

CalcGame == <<"t">>

CalcPlayer == <<"A", "C", "H">>

CalcInitials == {CalcPlayer, <<" ", "a", "c", "h">>}

ScorePatterns == {"flat", "rising", "falling", "mixed"}

\* the score of the player's r-th submission in time
PatternScore(pattern, r) ==
    CASE pattern = "flat" -> 500
      [] pattern = "rising" ->
            <<500, 1000, 5000, 10000, 25000, 50000>>[IF r > 6 THEN 6 ELSE r]
      [] pattern = "falling" ->
            <<50000, 25000, 10000, 5000, 1000, 500>>[IF r > 6 THEN 6 ELSE r]
      [] pattern = "mixed" ->
            <<1200, 500, 50000, 5500, 500, 25000, 10000, 500, 1000>>[((r - 1) % 9) + 1]

RecordOrders == {"in_time", "reversed", "odd_first"}

\* the submission, counted in time, that is recorded at position i of n
RankAt(order, i, n) ==
    CASE order = "in_time" -> i
      [] order = "reversed" -> n + 1 - i
      [] order = "odd_first" ->
            IF i <= (n + 1) \div 2 THEN 2 * i - 1 ELSE 2 * (i - (n + 1) \div 2)

\* a history of n entries of the player; the r-th submission in time has
\* timestamp r
CalcHistory(n, pattern, order) ==
    [i \in 1..n |-> ScoreEntry(CalcPlayer, PatternScore(pattern, RankAt(order, i, n)),
                               RankAt(order, i, n))]

InitCalc ==
    \E n \in 0..MaxCalcLen, pattern \in ScorePatterns, order \in RecordOrders :
        /\ db = Set(<<>>, AllScoresKey(CalcGame), CalcHistory(n, pattern, order))
        /\ now = MaxCalcLen + 2
        /\ calls = 0
        /\ last = NoCall
        /\ allOk = [g \in GameIDs |-> TRUE]
        /\ pc = [t \in Threads |-> "idle"]
        /\ arg = [t \in Threads |-> NoCall]
        /\ loc = [t \in Threads |-> <<>>]
        /\ acked = {}
        /\ legacy = [g \in GameIDs |-> <<>>]

NextCalc ==
    \E raw \in CalcInitials, fails \in QueryFaultSets :
        calls < MaxCalcCalls /\ CallQuery("GetEnhancedPlayerStats", CalcGame, raw, fails)

SpecCalc == InitCalc /\ [][NextCalc]_vars

-----------------------------------------------------------------------------
(* SpecFault: SubmitScore calls run one after another on one game, on a     *)
(* store of which at most one operation fails in each call                  *)

FaultGame == <<"t">>

FaultInitials == {<<"A", "A", "A">>, <<"B", "B", "B">>}

FaultScores == {1000, 2000}

FaultSets == {{}} \cup {{op} : op \in StoreOps}

\* one whole SubmitScore call, of which the store operations in fails fail
SubmitScoreFaulty(gameID, raw, score, fails) ==
    /\ \E r \in SubmitOutcomesFaulty(db, now, gameID, raw, score, fails) :
        /\ db' = r.db
        /\ now' = r.now
        /\ last' = [op |-> "SubmitScore", game |-> gameID, raw |-> raw,
                    initials |-> r.initials, score |-> score, err |-> r.err,
                    entries |-> <<>>, fails |-> fails, ops |-> r.ops]
        /\ allOk' = [allOk EXCEPT ![gameID] = @ /\ r.err = "none"]
    /\ calls' = calls + 1
    /\ UNCHANGED <<pc, arg, loc, acked, legacy>>

NextFault ==
    \E raw \in FaultInitials, score \in FaultScores, fails \in FaultSets :
        calls < MaxFaultCalls /\ SubmitScoreFaulty(FaultGame, raw, score, fails)

SpecFault == Init /\ [][NextFault]_vars

-----------------------------------------------------------------------------
(* SpecConc: SubmitScore calls running concurrently on one game, each       *)
(* player submitting from its own thread; every store operation is one step *)

ConcGame == <<"t">>

\* the player that submits from thread t
ThreadPlayer(t) == Player(t)

\* the initials thread t submits: the player's, or its first two characters
ConcInitials(t) == {ThreadPlayer(t), SubSeq(ThreadPlayer(t), 1, 2)}

ConcScores == {-1, 1000, 2000}

\* the call of thread t returns, and its arguments and locals are gone
Return(t, err) ==
    /\ pc' = [pc EXCEPT ![t] = "idle"]
    /\ arg' = [arg EXCEPT ![t] = NoCall]
    /\ loc' = [loc EXCEPT ![t] = <<>>]
    /\ last' = [op |-> "SubmitScore", game |-> arg[t].game, raw |-> arg[t].raw,
                initials |-> arg[t].initials, score |-> arg[t].score, err |-> err,
                entries |-> <<>>, fails |-> {}, ops |-> <<>>]
    /\ allOk' = [allOk EXCEPT ![arg[t].game] = @ /\ err = "none"]
    /\ acked' = IF err = "none" THEN acked \cup {loc[t].entry} ELSE acked

\* SubmitScore, lines 29-32, and addToAllScores, lines 165-172: the initials
\* are checked, the entry is stamped and the history record is read
Begin(t, raw, score) ==
    /\ pc[t] = "idle"
    /\ calls < MaxConcCalls
    /\ calls' = calls + 1
    /\ LET initials == NormalizeInitials(raw)
       IN  IF InitialsRejected(initials)
              THEN /\ pc' = pc
                   /\ last' = [op |-> "SubmitScore", game |-> ConcGame,
                               raw |-> raw, initials |-> initials,
                               score |-> score, err |-> "initials",
                               entries |-> <<>>, fails |-> {}, ops |-> <<>>]
                   /\ allOk' = [allOk EXCEPT ![ConcGame] = FALSE]
                   /\ UNCHANGED <<now, arg, loc>>
              ELSE /\ pc' = [pc EXCEPT ![t] = "history_set"]
                   /\ arg' = [arg EXCEPT ![t] =
                                [op |-> "SubmitScore", game |-> ConcGame,
                                 raw |-> raw, initials |-> initials,
                                 score |-> score, err |-> "none",
                                 entries |-> <<>>, fails |-> {}, ops |-> <<>>]]
                   /\ loc' = [loc EXCEPT ![t] =
                                [entry |-> ScoreEntry(initials, score, now),
                                 read |-> getAllScores(db, ConcGame),
                                 write |-> <<>>]]
                   /\ now' = now + 1
                   /\ UNCHANGED <<last, allOk>>
    /\ UNCHANGED <<db, acked, legacy>>

\* addToAllScores, lines 183-194: the record read, with the entry appended,
\* is written back
HistorySet(t) ==
    /\ pc[t] = "history_set"
    /\ db' = Set(db, AllScoresKey(arg[t].game), AppendedScores(loc[t].read, loc[t].entry))
    /\ pc' = [pc EXCEPT ![t] = "high_scores_get"]
    /\ UNCHANGED <<now, calls, last, allOk, arg, loc, acked, legacy>>

\* updatePlayerHighScore, lines 202-221: the index is read and, when the
\* score is a new high score, the player's entry is set in the copy read
HighScoresGet(t) ==
    /\ pc[t] = "high_scores_get"
    /\ LET highScores == HighScoresOf(getPlayerHighScores(db, arg[t].game))
       IN  IF IsNewHighScore(highScores, arg[t].initials, arg[t].score)
           THEN /\ loc' = [loc EXCEPT ![t].write =
                             WithHighScore(highScores, arg[t].initials, arg[t].score, now)]
                /\ now' = now + 1
                /\ pc' = [pc EXCEPT ![t] = "high_scores_set"]
           ELSE /\ pc' = [pc EXCEPT ![t] = "regenerate_get"]
                /\ UNCHANGED <<now, loc>>
    /\ UNCHANGED <<db, calls, last, allOk, arg, acked, legacy>>

\* updatePlayerHighScore, lines 223-231: the copy is written back
HighScoresSet(t) ==
    /\ pc[t] = "high_scores_set"
    /\ db' = Set(db, HighScoresKey(arg[t].game), loc[t].write)
    /\ pc' = [pc EXCEPT ![t] = "regenerate_get"]
    /\ UNCHANGED <<now, calls, last, allOk, arg, loc, acked, legacy>>

\* regenerateFilteredLeaderboard, lines 240-269, and saveLeaderboard, lines
\* 147-152: the index is read, sorted, cut and encoded
RegenerateGet(t) ==
    /\ pc[t] = "regenerate_get"
    /\ LET rec == getPlayerHighScores(db, arg[t].game)
       IN  IF ~rec.present
           THEN Return(t, "no_high_scores")
           ELSE \E entries \in FilteredLeaderboards(rec.data) :
                    IF LeaderboardValid(arg[t].game, entries)
                    THEN /\ loc' = [loc EXCEPT ![t].write = entries]
                         /\ pc' = [pc EXCEPT ![t] = "leaderboard_set"]
                         /\ UNCHANGED <<last, allOk, acked, arg>>
                    ELSE Return(t, "marshal")
    /\ UNCHANGED <<db, now, calls, legacy>>

\* saveLeaderboard, lines 154-157: the leaderboard is written, and
\* SubmitScore returns success
LeaderboardSet(t) ==
    /\ pc[t] = "leaderboard_set"
    /\ db' = Set(db, LeaderboardKey(arg[t].game), loc[t].write)
    /\ Return(t, "none")
    /\ UNCHANGED <<now, calls, legacy>>

NextConc ==
    \E t \in Threads :
        \/ \E raw \in ConcInitials(t), score \in ConcScores : Begin(t, raw, score)
        \/ HistorySet(t)
        \/ HighScoresGet(t)
        \/ HighScoresSet(t)
        \/ RegenerateGet(t)
        \/ LeaderboardSet(t)

SpecConc == Init /\ [][NextConc]_vars

-----------------------------------------------------------------------------
(* The records of a game in the current state *)

History(g) == getAllScores(db, g).data
HighScores(g) == HighScoresOf(getPlayerHighScores(db, g))
Board(g) == GetLeaderboard(db, g).entries

\* the scores a player has in a history
ScoresOf(scores, p) == {scores[i].score : i \in {j \in 1..Len(scores) : scores[j].initials = p}}

MaxOf(S) == CHOOSE m \in S : \A x \in S : m >= x

\* the positions of a player on a leaderboard
PositionsOf(entries, p) == {i \in 1..Len(entries) : entries[i].initials = p}

InRange(score) == 0 <= score /\ score <= MaxScoreValue

\* the step is a SubmitScore call returning
Returned == calls' = calls + 1

-----------------------------------------------------------------------------
(* C1 *)

\* C1: when every SubmitScore call on a game has returned success, the
\* leaderboard GetLeaderboard returns holds, for each player who submitted
\* scores s1..sn, exactly one entry, and its score is max(s1..sn).
C1_HighScoreOnly ==
    \A g \in GameIDs :
        allOk[g] =>
            \A p \in PlayersIn(History(g)) :
                /\ ~GetLeaderboard(db, g).err
                /\ Cardinality(PositionsOf(Board(g), p)) = 1
                /\ \A i \in PositionsOf(Board(g), p) :
                       Board(g)[i].score = MaxOf(ScoresOf(History(g), p))

\* a player submitted 2000 and then 1000 and the leaderboard shows 2000
C1_Witness ==
    \E g \in GameIDs :
        /\ allOk[g]
        /\ \E i, j \in 1..Len(History(g)) :
            /\ i < j
            /\ History(g)[i].initials = History(g)[j].initials
            /\ History(g)[i].score = 2000
            /\ History(g)[j].score = 1000
            /\ \E k \in 1..Len(Board(g)) :
                Board(g)[k] .initials = History(g)[i].initials /\ Board(g)[k].score = 2000

-----------------------------------------------------------------------------
(* C2 *)

\* C2: after any sequence of SubmitScore calls, the score the high-score
\* index holds for a player is the maximum of the player's scores in the
\* history, and the high score GetPlayerStats reports is the score the
\* leaderboard shows for the player.
C2_IndexIsHistoryMax ==
    \A g \in GameIDs :
        \A p \in PlayersIn(History(g)) :
            /\ p \in DOMAIN HighScores(g)
            /\ HighScores(g)[p].score = MaxOf(ScoresOf(History(g), p))
            /\ \A i \in PositionsOf(Board(g), p) :
                   GetPlayerStats(db, g, p).highScore = Board(g)[i].score

\* the first half of C2 alone
IndexIsHistoryMax ==
    \A g \in GameIDs :
        \A p \in PlayersIn(History(g)) :
            /\ p \in DOMAIN HighScores(g)
            /\ HighScores(g)[p].score = MaxOf(ScoresOf(History(g), p))

\* the whole of C2 for the games whose history holds scores in range only
StatsMatchBoardInRange ==
    \A g \in GameIDs :
        (\A i \in 1..Len(History(g)) : InRange(History(g)[i].score)) =>
            \A p \in PlayersIn(History(g)) :
                /\ p \in DOMAIN HighScores(g)
                /\ HighScores(g)[p].score = MaxOf(ScoresOf(History(g), p))
                /\ \A i \in PositionsOf(Board(g), p) :
                       GetPlayerStats(db, g, p).highScore = Board(g)[i].score

-----------------------------------------------------------------------------
(* C4 *)

\* C4: every leaderboard SubmitScore wrote is ordered by score descending,
\* and of two players with the same score the one whose high score was
\* recorded later comes first.
C4_RankingOrder ==
    \A g \in GameIDs :
        \A i, j \in 1..Len(Board(g)) :
            i < j =>
                \/ Board(g)[i].score > Board(g)[j].score
                \/ /\ Board(g)[i].score = Board(g)[j].score
                   /\ Board(g)[i].timestamp > Board(g)[j].timestamp

\* AAA and then BBB submitted 1000 to a fresh game: BBB is ranked first
C4_Witness ==
    \E g \in GameIDs :
        /\ Len(History(g)) = 2
        /\ History(g)[1].initials = <<"A", "A", "A">> /\ History(g)[1].score = 1000
        /\ History(g)[2].initials = <<"B", "B", "B">> /\ History(g)[2].score = 1000
        /\ Len(Board(g)) = 2
        /\ Board(g)[1].initials = <<"B", "B", "B">>
        /\ Board(g)[2].initials = <<"A", "A", "A">>

-----------------------------------------------------------------------------
(* C5 *)

\* what the queries return for a game
Answers(d, g) ==
    <<GetLeaderboard(d, g), GetAllScoresForGame(d, g),
      [raw \in LegacyInitials |-> GetPlayerStats(d, g, raw)],
      [limit \in Limits |-> GetScoreAnalysis(d, g, limit)]>>

\* C5: a SubmitScore or a migration on one game leaves the history, the
\* high-score index and the leaderboard of every other game as they were,
\* and with them what GetLeaderboard, GetAllScoresForGame, GetPlayerStats and
\* GetScoreAnalysis return for the other game.
C5_GameIsolation ==
    [][Returned =>
        \A g \in GameIDs \ {last'.game} :
            /\ getAllScores(db', g) = getAllScores(db, g)
            /\ getPlayerHighScores(db', g) = getPlayerHighScores(db, g)
            /\ Get(db', LeaderboardKey(g)) = Get(db, LeaderboardKey(g))
            /\ Answers(db', g) = Answers(db, g)]_vars

\* a score was just recorded for one game while another game holds records
\* of its own, none of which is the new entry
C5_Witness ==
    /\ last.op = "SubmitScore" /\ last.err = "none"
    /\ \E g \in GameIDs \ {last.game} :
        /\ Len(History(g)) > 0 /\ Len(Board(g)) > 0
        /\ History(last.game)[Len(History(last.game))] \notin Range(History(g))

-----------------------------------------------------------------------------
(* C6 *)

\* the initials are, once trimmed and upper-cased, 3 characters none of which
\* is a space
ThreeNonSpace(raw) ==
    LET n == NormalizeInitials(raw)
    IN  Len(n) = 3 /\ \A i \in 1..Len(n) : n[i] # " "

\* C6: a SubmitScore whose initials do not normalize to 3 non-space
\* characters returns an error and writes nothing; one whose initials do is
\* not rejected for its initials and its entry is appended to the history.
C6_InitialsValidation ==
    [][Returned =>
        /\ ~ThreeNonSpace(last'.raw) => last'.err = "initials" /\ db' = db
        /\ ThreeNonSpace(last'.raw) =>
               /\ last'.err # "initials"
               /\ Len(getAllScores(db', last'.game).data)
                      = Len(getAllScores(db, last'.game).data) + 1]_vars

\* initials with a space inside were rejected on a game that holds records
C6_Witness ==
    /\ last.op = "SubmitScore" /\ last.err = "initials"
    /\ last.raw = <<"A", " ", "B">>
    /\ Len(History(last.game)) > 0

-----------------------------------------------------------------------------
(* C7 *)

\* C7: a SubmitScore whose score is outside [0, 999999999] returns an error
\* and leaves the history, the high-score index and the leaderboard as they
\* were.
C7_ScoreRangeRejected ==
    [][(Returned /\ ~InRange(last'.score)) =>
        /\ last'.err # "none"
        /\ db' = db]_vars

\* the part of C7 about the return value alone
OutOfRangeReturnsError ==
    [][(Returned /\ ~InRange(last'.score)) => last'.err # "none"]_vars

-----------------------------------------------------------------------------
(* C8 *)

\* C8: a SubmitScore that returns success extends the history of its game by
\* exactly one entry, placed last, with the normalized initials and the
\* score submitted; the entries recorded before keep value and position.
C8_AppendOnly ==
    [][(Returned /\ last'.err = "none") =>
        LET old == getAllScores(db, last'.game).data
            new == getAllScores(db', last'.game).data
        IN  /\ Len(new) = Len(old) + 1
            /\ SubSeq(new, 1, Len(old)) = old
            /\ new[Len(new)].initials = NormalizeInitials(last'.raw)
            /\ new[Len(new)].score = last'.score]_vars

\* a score below the player's high score was appended to a history
C8_Witness ==
    /\ last.op = "SubmitScore" /\ last.err = "none"
    /\ Len(History(last.game)) >= 2
    /\ History(last.game)[Len(History(last.game))].score = last.score
    /\ last.initials \in DOMAIN HighScores(last.game)
    /\ HighScores(last.game)[last.initials].score > last.score

-----------------------------------------------------------------------------
(* C3 *)

Min(a, b) == IF a < b THEN a ELSE b

\* C3: after a SubmitScore that returned success the cached leaderboard is
\* the high-score index sorted by score descending and cut to 10: it has
\* min(10, players in the index) entries, each the index entry of its
\* player, no player twice, in descending order of score, and no player left
\* out has a higher score than a player listed.
C3_BoardIsTopOfIndex ==
    (last.op = "SubmitScore" /\ last.err = "none") =>
        LET hs == HighScores(last.game)
            lb == Board(last.game)
            listed == {lb[i].initials : i \in 1..Len(lb)}
        IN  /\ ~GetLeaderboard(db, last.game).err
            /\ Len(lb) = Min(MaxEntries, Cardinality(DOMAIN hs))
            /\ Cardinality(listed) = Len(lb)
            /\ \A i \in 1..Len(lb) :
                   lb[i].initials \in DOMAIN hs /\ lb[i] = hs[lb[i].initials]
            /\ \A i, j \in 1..Len(lb) : i < j => lb[i].score >= lb[j].score
            /\ \A p \in DOMAIN hs \ listed :
                   \A i \in 1..Len(lb) : hs[p].score <= lb[i].score

\* a call returned success on a game of more than 10 players whose
\* leaderboard an earlier failed call had left behind the index: the
\* leaderboard has 10 entries, and the new player, ahead of a player of the
\* index, is among them
C3_Witness ==
    /\ last.op = "SubmitScore" /\ last.err = "none"
    /\ Cardinality(DOMAIN HighScores(last.game)) > MaxEntries
    /\ Len(Board(last.game)) = MaxEntries
    /\ \E i \in 1..Len(Board(last.game)) : Board(last.game)[i].initials = last.initials
    /\ \E p \in DOMAIN HighScores(last.game) : HighScores(last.game)[p].score = -1

-----------------------------------------------------------------------------
(* C9 *)

\* C9: the entry of every SubmitScore call that has returned success is in
\* the history of its game, in every later state, also when calls run
\* concurrently.
C9_EverySubmissionPreserved ==
    \A e \in acked : e \in Range(History(ConcGame))

-----------------------------------------------------------------------------
(* C10 *)

AllReturned == calls > 0 /\ \A t \in Threads : pc[t] = "idle"

\* the leaderboard GetLeaderboard returns is not empty, lists no player
\* twice, has at most 10 entries and is sorted by score descending
BoardWellFormed ==
    LET lb == Board(ConcGame)
    IN  /\ ~GetLeaderboard(db, ConcGame).err
        /\ Len(lb) > 0
        /\ Len(lb) <= MaxEntries
        /\ \A i, j \in 1..Len(lb) : i < j =>
               lb[i].initials # lb[j].initials /\ lb[i].score >= lb[j].score

\* C10 as stated: once all the concurrent calls have returned, GetLeaderboard
\* returns a leaderboard that is not empty, lists no player twice, has at
\* most 10 entries and is sorted by score descending.
C10_ConcurrentBoardWellFormed == AllReturned => BoardWellFormed

\* C10, for the runs in which a call returned success: under any
\* interleaving of concurrent SubmitScore calls on one fresh game, once all
\* the calls have returned and at least one of them returned success, the
\* leaderboard is not empty, lists no player twice, has at most 10 entries
\* and is sorted by score descending.
C10_WellFormedAfterSuccess == (AllReturned /\ acked # {}) => BoardWellFormed

\* the calls of two players overlapped and both returned success, and the
\* leaderboard lists one of the two players only
C10_Witness ==
    /\ AllReturned
    /\ Cardinality({e.initials : e \in acked}) = 2
    /\ Len(Board(ConcGame)) = 1

-----------------------------------------------------------------------------
(* C11 *)

\* the game holds a leaderboard record, no history record and no index
LegacyOnly(d, g) ==
    /\ Get(d, LeaderboardKey(g)).present
    /\ ~getAllScores(d, g).present
    /\ ~getPlayerHighScores(d, g).present

\* the entries list each player of the board once, with the player's highest
\* score on the board
BestOfEach(entries, board) ==
    /\ PlayersIn(entries) = PlayersIn(board)
    /\ \A p \in PlayersIn(board) :
           /\ Cardinality(PositionsOf(entries, p)) = 1
           /\ \A i \in PositionsOf(entries, p) :
                  entries[i].score = MaxOf(ScoresOf(board, p))

\* C11: a GetLeaderboard call on a game that holds only a legacy leaderboard
\* migrates it: after the call the history record and the high-score index
\* exist, and the leaderboard returned lists each player once with the
\* player's highest legacy score.
C11_MigratesOnFirstAccess ==
    [][(Returned /\ last'.op = "GetLeaderboard" /\ LegacyOnly(db, last'.game)) =>
        /\ last'.err = "none"
        /\ getAllScores(db', last'.game).present
        /\ getPlayerHighScores(db', last'.game).present
        /\ BestOfEach(last'.entries, Get(db, LeaderboardKey(last'.game)).data)]_vars

-----------------------------------------------------------------------------
(* C12 *)

\* C12: for a game that started with a legacy leaderboard and no history,
\* after any sequence of GetLeaderboard and SubmitScore calls every legacy
\* entry is in the history of the game, and the high-score index holds for
\* every legacy player a score no lower than the player's best legacy score.
C12_NoLegacyDataLost ==
    calls > 0 =>
        \A g \in GameIDs :
            /\ \A e \in Range(legacy[g]) : e \in Range(History(g))
            /\ \A p \in PlayersIn(legacy[g]) :
                   /\ p \in DOMAIN HighScores(g)
                   /\ HighScores(g)[p].score >= MaxOf(ScoresOf(legacy[g], p))

-----------------------------------------------------------------------------
(* C13 *)

\* C13: a MigrateExistingLeaderboard call on a game with a legacy
\* leaderboard and no history record returns success and leaves a history
\* holding the legacy entries, a high-score index mapping each initials to
\* its highest legacy score, and a leaderboard listing each player once with
\* that score, sorted by score descending.
C13_MigrationResult ==
    [][(/\ Returned
        /\ last'.op = "MigrateExistingLeaderboard"
        /\ Get(db, LeaderboardKey(last'.game)).present
        /\ ~getAllScores(db, last'.game).present) =>
        LET g == last'.game
            board == Get(db, LeaderboardKey(g)).data
            hist == getAllScores(db', g)
            hs == getPlayerHighScores(db', g)
            lb == Get(db', LeaderboardKey(g)).data
        IN  /\ last'.err = "none"
            /\ hist.present /\ hist.data = board
            /\ hs.present /\ DOMAIN hs.data = PlayersIn(board)
            /\ \A p \in PlayersIn(board) :
                   hs.data[p].score = MaxOf(ScoresOf(board, p))
            /\ BestOfEach(lb, board)
            /\ \A i, j \in 1..Len(lb) : i < j => lb[i].score >= lb[j].score]_vars

\* the README's example was migrated by the first call: legacy AAA 5000,
\* BBB 4000, AAA 3000 gave the leaderboard AAA 5000, BBB 4000
C13_Witness ==
    /\ last.op = "MigrateExistingLeaderboard" /\ last.err = "none"
    /\ calls = 1
    /\ legacy[last.game] = LegacyEntries
    /\ History(last.game) = LegacyEntries
    /\ Len(Board(last.game)) = 2
    /\ Board(last.game)[1].initials = <<"A", "A", "A">> /\ Board(last.game)[1].score = 5000
    /\ Board(last.game)[2].initials = <<"B", "B", "B">> /\ Board(last.game)[2].score = 4000

-----------------------------------------------------------------------------
(* C14 *)

\* C14: in every reachable state, MigrateExistingLeaderboard changes no
\* record of a game whose history record exists or that has no leaderboard
\* record, and a second call right after a first changes no record.
C14_MigrationIdempotent ==
    \A g \in GameIDs :
        \A once \in MigrateOutcomes(db, now, g) :
            /\ (getAllScores(db, g).present \/ ~Get(db, LeaderboardKey(g)).present) =>
                   once.db = db
            /\ \A twice \in MigrateOutcomes(once.db, once.now, g) : twice.db = once.db

\* a call has migrated one game, where a second call now finds the history,
\* and another game still holds its legacy leaderboard only
C14_Witness ==
    /\ last.op = "MigrateExistingLeaderboard" /\ last.err = "none"
    /\ legacy[last.game] # <<>>
    /\ History(last.game) = legacy[last.game]
    /\ \E g \in GameIDs : LegacyOnly(db, g)

-----------------------------------------------------------------------------
(* C15 *)

\* the call made the store operation op on the key
Made(ops, op, key) == \E i \in 1..Len(ops) : ops[i] = StoreOp(op, key)

\* C15: when, during a SubmitScore call, the read of an existing history
\* record or of an existing high-score index fails, the call returns an error
\* and the record that could not be read is left as it was.
C15_ReadFailurePropagated ==
    [][(Returned /\ last'.op = "SubmitScore") =>
        LET g == last'.game
        IN  /\ (/\ "history_get" \in last'.fails
                /\ Made(last'.ops, "get", AllScoresKey(g))
                /\ getAllScores(db, g).present) =>
                   /\ last'.err # "none"
                   /\ getAllScores(db', g) = getAllScores(db, g)
            /\ (/\ "index_get" \in last'.fails
                /\ Made(last'.ops, "get", HighScoresKey(g))
                /\ getPlayerHighScores(db, g).present) =>
                   /\ last'.err # "none"
                   /\ getPlayerHighScores(db', g) = getPlayerHighScores(db, g)]_vars

-----------------------------------------------------------------------------
(* C16 *)

\* s is t with some elements left out
RECURSIVE IsSubSeq(_, _)
IsSubSeq(s, t) ==
    IF s = <<>> THEN TRUE
    ELSE IF t = <<>> THEN FALSE
    ELSE IF Head(s) = Head(t) THEN IsSubSeq(Tail(s), Tail(t))
    ELSE IsSubSeq(s, Tail(t))

\* the store operations of a SubmitScore call that runs to its end: history
\* append, index update, leaderboard regeneration
StepsInOrder(g) ==
    <<StoreOp("get", AllScoresKey(g)), StoreOp("set", AllScoresKey(g)),
      StoreOp("get", HighScoresKey(g)), StoreOp("set", HighScoresKey(g)),
      StoreOp("get", HighScoresKey(g)), StoreOp("set", LeaderboardKey(g))>>

\* C16: the store operations of a SubmitScore call are made in the order
\* history, index, leaderboard, none of them twice in a step; when the write
\* of a step fails the call returns an error, the failed write is the last
\* store operation of the call, and the store holds what the earlier steps
\* wrote and nothing else.
C16_NoRollbackNoRetry ==
    [][(Returned /\ last'.op = "SubmitScore") =>
        LET g == last'.game
            ops == last'.ops
            failedSet(key) == ops # <<>> /\ ops[Len(ops)] = StoreOp("set", key)
            d1 == addToAllScores(db, g, last'.initials, last'.score, now)
            d2 == updatePlayerHighScore(d1, g, last'.initials, last'.score, now + 1)
        IN  /\ IsSubSeq(ops, StepsInOrder(g))
            /\ ("history_set" \in last'.fails /\ Made(ops, "set", AllScoresKey(g))) =>
                   last'.err # "none" /\ failedSet(AllScoresKey(g)) /\ db' = db
            /\ ("index_set" \in last'.fails /\ Made(ops, "set", HighScoresKey(g))) =>
                   last'.err # "none" /\ failedSet(HighScoresKey(g)) /\ db' = d1
            /\ ("board_set" \in last'.fails /\ Made(ops, "set", LeaderboardKey(g))) =>
                   last'.err # "none" /\ failedSet(LeaderboardKey(g)) /\ db' = d2]_vars

\* the write of the index failed in a call on a game that holds records: the
\* call returned an error, the history has the new entry and the index has not
C16_Witness ==
    /\ last.op = "SubmitScore" /\ last.fails = {"index_set"} /\ last.err = "index"
    /\ Len(History(last.game)) >= 2
    /\ History(last.game)[Len(History(last.game))].initials = last.initials
    /\ History(last.game)[Len(History(last.game))].score = last.score
    /\ last.initials \in DOMAIN HighScores(last.game)
    /\ HighScores(last.game)[last.initials].score < last.score
    /\ Len(Board(last.game)) > 0

-----------------------------------------------------------------------------
(* C17 *)

MinOf(S) == CHOOSE m \in S : \A x \in S : m <= x

\* what C17 says GetPlayerStats returns for the initials, from the history
StatsAsClaimed(d, g, raw) ==
    LET rec == getAllScores(d, g)
        mine == {i \in 1..Len(rec.data) : rec.data[i].initials = NormalizeInitials(raw)}
        stats == GetPlayerStats(d, g, raw)
    IN  IF ~rec.present \/ mine = {} THEN stats.err
        ELSE /\ ~stats.err
             /\ stats.highScore = MaxOf({rec.data[i].score : i \in mine})
             /\ stats.totalScores = Cardinality(mine)
             /\ stats.firstPlayed = MinOf({rec.data[i].timestamp : i \in mine})
             /\ stats.lastPlayed = MaxOf({rec.data[i].timestamp : i \in mine})

\* C17: GetPlayerStats computes its result over exactly the history entries
\* whose initials are the trimmed, upper-cased argument: highScore is their
\* maximum score, totalScores their number, firstPlayed and lastPlayed their
\* earliest and latest timestamps; it returns an error when there is no such
\* entry or no history.
C17_PlayerStatsExact ==
    \A g \in GameIDs : \A raw \in RawInitials : StatsAsClaimed(db, g, raw)

\* C17 for the games whose history holds scores in range only
PlayerStatsExactInRange ==
    \A g \in GameIDs :
        (\A i \in 1..Len(History(g)) : InRange(History(g)[i].score)) =>
            \A raw \in RawInitials : StatsAsClaimed(db, g, raw)

-----------------------------------------------------------------------------
(* C18 *)

\* what C18 says GetScoreAnalysis returns for the game, from the history and
\* the leaderboard
AnalysisAsClaimed(d, g, limit) ==
    LET rec == getAllScores(d, g)
        analysis == GetScoreAnalysis(d, g, limit)
        lb == GetLeaderboard(d, g)
        players == {rec.data[i].initials : i \in 1..Len(rec.data)}
    IN  IF ~rec.present \/ rec.data = <<>>
        THEN analysis.err \in {"history", "no_scores"}
        ELSE /\ analysis.err = "none"
             /\ analysis.totalScores = Len(rec.data)
             /\ analysis.totalPlayers = Cardinality(players)
             /\ analysis.highestScore = MaxOf({rec.data[i].score : i \in 1..Len(rec.data)})
             /\ (allOk[g] /\ Cardinality(players) <= MaxEntries) =>
                    /\ ~lb.err
                    /\ Len(lb.entries) = analysis.totalPlayers
                    /\ lb.entries[1].score = analysis.highestScore

\* C18: on a game with a non-empty history GetScoreAnalysis returns totalScores
\* equal to the history length, totalPlayers equal to the number of distinct
\* initials and highestScore equal to the maximum score of the history; when
\* the game has at most 10 players and every submission on it succeeded, the
\* leaderboard has totalPlayers entries and its first score is highestScore.
\* It returns an error when the game has no history.
C18_AnalysisTotals ==
    \A g \in GameIDs : \A limit \in Limits : AnalysisAsClaimed(db, g, limit)

\* C18 for the games whose history holds scores in range only
AnalysisTotalsInRange ==
    \A g \in GameIDs :
        (\A i \in 1..Len(History(g)) : InRange(History(g)[i].score)) =>
            \A limit \in Limits : AnalysisAsClaimed(db, g, limit)

\* C18 for the games on which every submission succeeded
AnalysisTotalsAfterSuccess ==
    \A g \in GameIDs :
        allOk[g] => \A limit \in Limits : AnalysisAsClaimed(db, g, limit)

-----------------------------------------------------------------------------
(* C19 *)

\* the achievement ids C19 lists for n history entries and high score h
ClaimedIds(n, h) ==
    <<"first_score">>
    \o (IF h >= 1000 THEN <<"score_1k">> ELSE <<>>)
    \o (IF h >= 5000 THEN <<"score_5k">> ELSE <<>>)
    \o (IF h >= 10000 THEN <<"score_10k">> ELSE <<>>)
    \o (IF h >= 25000 THEN <<"score_25k">> ELSE <<>>)
    \o (IF h >= 50000 THEN <<"score_50k">> ELSE <<>>)
    \o (IF n >= 5 THEN <<"dedicated_player">> ELSE <<>>)
    \o (IF n >= 10 THEN <<"score_hunter">> ELSE <<>>)

\* the ids of the achievements GetEnhancedPlayerStats returns, in order
AchievementIds(d, g, raw) ==
    LET achievements == GetEnhancedPlayerStats(d, g, raw).achievements
    IN  [i \in 1..Len(achievements) |-> achievements[i].id]

\* the scores of a player in a history, in order
RECURSIVE ScoreSeqOf(_, _)
ScoreSeqOf(scores, p) ==
    IF scores = <<>> THEN <<>>
    ELSE (IF Head(scores).initials = p THEN <<Head(scores).score>> ELSE <<>>)
         \o ScoreSeqOf(Tail(scores), p)

\* C19: the achievements of a player with n history entries and high score h
\* are exactly first_score, one per threshold in 1000, 5000, 10000, 25000,
\* 50000 that h reaches, dedicated_player iff n >= 5 and score_hunter iff
\* n >= 10, in that order; a player who submits 500, then 1200, then 5500 has
\* 1, then 2, then 3 achievements.
C19_AchievementsExact ==
    \A g \in GameIDs : \A raw \in AchInitials :
        LET p == NormalizeInitials(raw)
            mine == ScoreSeqOf(History(g), p)
            ids == AchievementIds(db, g, raw)
        IN  mine # <<>> =>
                /\ ~GetEnhancedPlayerStats(db, g, raw).err
                /\ ids = ClaimedIds(Len(mine), MaxOf(Range(mine)))
                /\ mine = <<500>> => Len(ids) = 1
                /\ mine = <<500, 1200>> => Len(ids) = 2
                /\ mine = <<500, 1200, 5500>> => Len(ids) = 3

\* the player's tenth score has come in and the high score is exactly the
\* first threshold
C19_Witness ==
    /\ last.op = "SubmitScore" /\ last.err = "none"
    /\ last.initials = AchPlayer
    /\ Len(ScoreSeqOf(History(AchGame), AchPlayer)) = 10
    /\ MaxOf(Range(ScoreSeqOf(History(AchGame), AchPlayer))) = 1000
    /\ AchievementIds(db, AchGame, AchPlayer)
         = <<"first_score", "score_1k", "dedicated_player", "score_hunter">>

\* the test's player after 500, 1200 and 5500
AchievementTestEnd ==
    /\ ScoreSeqOf(History(AchGame), AchPlayer) = <<500, 1200, 5500>>
    /\ AchievementIds(db, AchGame, AchPlayer) = <<"first_score", "score_1k", "score_5k">>

-----------------------------------------------------------------------------
(* C20 *)

\* the set of achievement ids GetEnhancedPlayerStats returns in a store; none
\* when it returns an error
AchievementSet(d, g, raw) ==
    LET ids == AchievementIds(d, g, raw) IN {ids[i] : i \in 1..Len(ids)}

\* C20: achievement monotonicity: every achievement id a player holds before a
\* successful SubmitScore call on the game is still held after it.
C20_AchievementsMonotonic ==
    [][(Returned /\ last'.op = "SubmitScore" /\ last'.err = "none") =>
          \A raw \in AchInitials :
              AchievementSet(db, last'.game, raw) \subseteq AchievementSet(db', last'.game, raw)]_vars

\* a player holding score_1k and dedicated_player has submitted a lower score
C20_Witness ==
    /\ last.op = "SubmitScore" /\ last.err = "none"
    /\ last.initials = AchPlayer
    /\ last.score < 1000
    /\ {"first_score", "score_1k", "dedicated_player"}
         \subseteq AchievementSet(db, AchGame, AchPlayer)

-----------------------------------------------------------------------------
(* C21 *)

\* the leaderboard read is one that regenerateFilteredLeaderboard builds from
\* the index as it is now: the index sorted by score descending, cut to 10
BoardMatchesIndex(g) ==
    /\ ~GetLeaderboard(db, g).err
    /\ Board(g) \in FilteredLeaderboards(HighScores(g))

\* C21: for any interleaving of concurrent SubmitScore calls on one game, once
\* all calls have returned the cached leaderboard equals the high-score index
\* sorted by score descending and truncated to 10.
C21_ConcurrentBoardMatchesIndex ==
    (AllReturned /\ getPlayerHighScores(db, ConcGame).present) =>
        BoardMatchesIndex(ConcGame)

-----------------------------------------------------------------------------
(* C22 *)

\* the step is a SubmitScore call returning, for a player whose entry in the
\* index has at least the score submitted
NotAboveHighScore ==
    /\ Returned /\ last'.op = "SubmitScore"
    /\ last'.initials \in DOMAIN HighScores(last'.game)
    /\ last'.score <= HighScores(last'.game)[last'.initials].score

\* the index record of the game is the same before and after the step
IndexUnchanged(g) == Get(db', HighScoresKey(g)) = Get(db, HighScoresKey(g))

\* no player tied with p in the index and listed after p before the step is
\* listed before p after it... and the other way round
TiesKeepOrder(g, p) ==
    LET before == GetLeaderboard(db, g).entries
        after == GetLeaderboard(db', g).entries
    IN  \A q \in DOMAIN HighScores(g) :
            (/\ q # p
             /\ HighScores(g)[q].score = HighScores(g)[p].score
             /\ PositionsOf(before, p) # {} /\ PositionsOf(before, q) # {}) =>
                /\ PositionsOf(after, p) # {} /\ PositionsOf(after, q) # {}
                /\ \A i \in PositionsOf(before, p), j \in PositionsOf(before, q),
                      k \in PositionsOf(after, p), l \in PositionsOf(after, q) :
                        (i < j) <=> (k < l)

\* after the step the leaderboard record is the index regenerated
Regenerated(g) ==
    /\ ~GetLeaderboard(db', g).err
    /\ GetLeaderboard(db', g).entries
         \in FilteredLeaderboards(HighScoresOf(getPlayerHighScores(db', g)))

\* C22: a SubmitScore whose score is at most the player's existing high score
\* leaves the high-score index record unchanged, so an equal score does not
\* move the player ahead of a player tied at that score; the leaderboard record
\* is nevertheless regenerated.
C22_IndexUntouchedBoardRegenerated ==
    [][NotAboveHighScore =>
          /\ IndexUnchanged(last'.game)
          /\ TiesKeepOrder(last'.game, last'.initials)
          /\ Regenerated(last'.game)]_vars

\* C22 without its last part: the index record and the order of ties
IndexUntouched ==
    [][NotAboveHighScore =>
          /\ IndexUnchanged(last'.game)
          /\ TiesKeepOrder(last'.game, last'.initials)]_vars

\* C22 for the calls that return success
RegeneratedOnSuccess ==
    [][(NotAboveHighScore /\ last'.err = "none") => Regenerated(last'.game)]_vars

\* under SpecFault: a call none of whose store operations fails does not write
\* the index and ends by writing the leaderboard
RegenerationWrites ==
    [][(NotAboveHighScore /\ last'.fails = {}) =>
          /\ ~Made(last'.ops, "set", HighScoresKey(last'.game))
          /\ last'.ops[Len(last'.ops)] = StoreOp("set", LeaderboardKey(last'.game))
          /\ IndexUnchanged(last'.game)
          /\ Regenerated(last'.game)]_vars

-----------------------------------------------------------------------------
(* C23 *)

\* every player of the index of g stays in it over the step, with a score
\* that is not lower
IndexGrows(g) ==
    LET before == HighScoresOf(getPlayerHighScores(db, g))
        after == HighScoresOf(getPlayerHighScores(db', g))
    IN  \A p \in DOMAIN before :
            p \in DOMAIN after /\ after[p].score >= before[p].score

\* C23: for any interleaving of SubmitScore calls on one game, a player that
\* has an entry in the high-score index stays in the index in every later
\* state and the entry's score never decreases.
C23_IndexNeverShrinks == [][IndexGrows(ConcGame)]_vars

\* C23 for calls that run one after another
IndexNeverShrinksSequential == [][\A g \in GameIDs : IndexGrows(g)]_vars

-----------------------------------------------------------------------------
(* C24 *)

\* every entry of the leaderboard of g is the score of a history entry of the
\* same player, and the two player queries succeed for the player
BoardBackedByHistory(g) ==
    \A i \in 1..Len(Board(g)) :
        /\ \E j \in 1..Len(History(g)) :
               /\ History(g)[j].initials = Board(g)[i].initials
               /\ History(g)[j].score = Board(g)[i].score
        /\ ~GetPlayerStats(db, g, Board(g)[i].initials).err
        /\ ~GetEnhancedPlayerStats(db, g, Board(g)[i].initials).err

\* C24: in every reachable state of a game that never had a legacy
\* leaderboard, under any interleaving of SubmitScore calls, every player on
\* the cached leaderboard has a history entry with that score, and
\* GetPlayerStats and GetEnhancedPlayerStats succeed for the player.
C24_BoardPlayersHaveHistory == BoardBackedByHistory(ConcGame)

\* C24 for calls that run one after another
BoardPlayersHaveHistorySequential == \A g \in GameIDs : BoardBackedByHistory(g)

-----------------------------------------------------------------------------
(* C25 *)

\* C25: GetScoreAnalysis always ends by returning a result or an error; when
\* the history is non-empty and the cached leaderboard cannot be read it does
\* not crash by using a missing leaderboard.
C25_AnalysisNeverCrashes ==
    \A g \in GameIDs : \A limit \in Limits :
        GetScoreAnalysis(db, g, limit).err # "panic"

-----------------------------------------------------------------------------
(* C26 *)

\* the step is a SubmitScore call returning, with valid initials and a score
\* within range, none of its store operations failing, on a game on which an
\* earlier SubmitScore returned an error
ValidAfterFailure ==
    /\ Returned /\ last'.op = "SubmitScore"
    /\ ~allOk[last'.game]
    /\ ThreeNonSpace(last'.raw)
    /\ InRange(last'.score)
    /\ last'.fails = {}

\* C26: a failed SubmitScore never wedges a game: after a SubmitScore that
\* returned an error for any reason, a later SubmitScore on the game with valid
\* initials and a score within [0, 999999999] returns success whenever its
\* store operations succeed.
C26_FailureNeverWedges == [][ValidAfterFailure => last'.err = "none"]_vars

\* C26 for the games whose records hold scores within range only
NoWedgeInRange ==
    [][(/\ ValidAfterFailure
        /\ \A i \in 1..Len(History(last'.game)) : InRange(History(last'.game)[i].score))
          => last'.err = "none"]_vars

-----------------------------------------------------------------------------
(* C27 *)

\* the three records of a game in a store
RecordsOf(d, g) ==
    <<Get(d, AllScoresKey(g)), Get(d, HighScoresKey(g)), Get(d, LeaderboardKey(g))>>

\* the game has a history record, or no record at all
HistoryOrNothing(d, g) ==
    \/ Get(d, AllScoresKey(g)).present
    \/ RecordsOf(d, g) = <<Absent, Absent, Absent>>

QueriesReadOnlyAnyGame ==
    [][(Returned /\ last'.op \in Queries) =>
          RecordsOf(db', last'.game) = RecordsOf(db, last'.game)]_vars

-----------------------------------------------------------------------------
(* C28 *)

\* the timestamps of the player's history entries that score at least t
TimesReaching(g, p, t) ==
    {History(g)[i].timestamp :
        i \in {j \in 1..Len(History(g)) :
                  History(g)[j].initials = p /\ History(g)[j].score >= t}}

\* the timestamp of the player's k-th submission in time order
TimeOfNth(g, p, k) ==
    LET times == TimesReaching(g, p, -1)
    IN  CHOOSE t \in times : Cardinality({u \in times : u <= t}) = k

\* the unlock time a list of achievements gives for an id
UnlockedAt(achievements, id) ==
    LET i == CHOOSE i \in 1..Len(achievements) : achievements[i].id = id
    IN  achievements[i].unlockedAt

HasAchievement(achievements, id) ==
    \E i \in 1..Len(achievements) : achievements[i].id = id

\* C28: each score-threshold achievement is timestamped at the earliest, by
\* timestamp, of the player's submissions whose score is at least the
\* threshold; dedicated_player at the player's 5th submission in time order
\* and score_hunter at the 10th; a higher threshold's unlock time is never
\* earlier than a lower threshold's.
C28_UnlockTimes ==
    \A raw \in CalcInitials :
        LET p == NormalizeInitials(raw)
            achievements == GetEnhancedPlayerStats(db, CalcGame, raw).achievements
        IN  /\ \A i \in 1..Len(Milestones) :
                   HasAchievement(achievements, Milestones[i].id) =>
                       UnlockedAt(achievements, Milestones[i].id)
                           = MinOf(TimesReaching(CalcGame, p, Milestones[i].score))
            /\ HasAchievement(achievements, "dedicated_player") =>
                   UnlockedAt(achievements, "dedicated_player") = TimeOfNth(CalcGame, p, 5)
            /\ HasAchievement(achievements, "score_hunter") =>
                   UnlockedAt(achievements, "score_hunter") = TimeOfNth(CalcGame, p, 10)
            /\ \A i, j \in 1..Len(Milestones) :
                   (/\ i < j
                    /\ HasAchievement(achievements, Milestones[i].id)
                    /\ HasAchievement(achievements, Milestones[j].id)) =>
                       UnlockedAt(achievements, Milestones[i].id)
                           <= UnlockedAt(achievements, Milestones[j].id)

\* GetEnhancedPlayerStats has returned for a player with ten entries recorded
\* out of time order, whose first threshold was reached before the high score
C28_Witness ==
    LET achievements == GetEnhancedPlayerStats(db, CalcGame, CalcPlayer).achievements
        h == History(CalcGame)
    IN  /\ last.op = "GetEnhancedPlayerStats" /\ last.err = "none"
        /\ Len(h) = 10
        /\ \E i, j \in 1..Len(h) : i < j /\ h[i].timestamp > h[j].timestamp
        /\ HasAchievement(achievements, "score_hunter")
        /\ HasAchievement(achievements, "score_50k")
        /\ UnlockedAt(achievements, "score_1k") < UnlockedAt(achievements, "score_50k")
        /\ UnlockedAt(achievements, "dedicated_player") = 5

-----------------------------------------------------------------------------
(* C29 *)

\* the buckets as C29 lists them; the last one has no upper end
ClaimedBuckets ==
    <<[label |-> "0-999", from |-> 0, to |-> 999],
      [label |-> "1K-5K", from |-> 1000, to |-> 4999],
      [label |-> "5K-10K", from |-> 5000, to |-> 9999],
      [label |-> "10K-25K", from |-> 10000, to |-> 24999],
      [label |-> "25K-50K", from |-> 25000, to |-> 49999],
      [label |-> "50K+", from |-> 50000, to |-> 50000]>>

InClaimedBucket(score, i) ==
    /\ score >= ClaimedBuckets[i].from
    /\ i < Len(ClaimedBuckets) => score <= ClaimedBuckets[i].to

\* the count a distribution gives for a label
CountOf(distribution, label) ==
    IF label \in DOMAIN distribution THEN distribution[label] ELSE 0

RECURSIVE SumOfCounts(_, _)
SumOfCounts(distribution, labels) ==
    IF labels = {} THEN 0
    ELSE LET label == CHOOSE l \in labels : TRUE
         IN  distribution[label] + SumOfCounts(distribution, labels \ {label})

\* what C29 says of the distribution GetScoreAnalysis returns for the game
DistributionAsClaimed(g) ==
    LET analysis == GetScoreAnalysis(db, g, MaxEntries)
        distribution == analysis.scoreDistribution
    IN  analysis.err = "none" =>
            /\ \A i \in 1..Len(ClaimedBuckets) :
                   CountOf(distribution, ClaimedBuckets[i].label)
                       = Cardinality({j \in 1..Len(History(g)) :
                                         InClaimedBucket(History(g)[j].score, i)})
            /\ SumOfCounts(distribution, DOMAIN distribution) = analysis.totalScores

\* C29: in GetScoreAnalysis's scoreDistribution every history entry is counted
\* in exactly one of the buckets 0-999, 1000..4999, 5000..9999, 10000..24999,
\* 25000..49999, 50000 and above, so after any sequence of SubmitScore calls
\* the bucket counts sum to totalScores.
C29_DistributionCountsEveryEntry == \A g \in GameIDs : DistributionAsClaimed(g)

\* C29 for the games whose history holds scores in range only
DistributionInRange ==
    \A g \in GameIDs :
        (\A i \in 1..Len(History(g)) : InRange(History(g)[i].score)) =>
            DistributionAsClaimed(g)

-----------------------------------------------------------------------------
(* C30 *)

\* the limits GetScoreAnalysis is called with
AnalysisLimits == {-1, 0, 1, 2, 10, 11}

\* the limit clamped into [1, 10]
ClampedIntoRange(limit) ==
    IF limit < 1 THEN 1 ELSE IF limit > 10 THEN 10 ELSE limit

\* the limit when it lies in [1, 10], and 10 otherwise
LimitOrTen(limit) == IF limit < 1 \/ limit > 10 THEN 10 ELSE limit

\* the stats of the first min(L, number of entries) players of the
\* leaderboard of g, in leaderboard order
StatsOfFirst(g, L) ==
    [i \in 1..Min(L, Len(Board(g))) |->
        GetEnhancedPlayerStats(db, g, Board(g)[i].initials)]

\* the entries of a sequence of stats that are not errors, in order
RECURSIVE Succeeded(_)
Succeeded(stats) ==
    IF stats = <<>> THEN <<>>
    ELSE (IF Head(stats).err THEN <<>> ELSE <<Head(stats)>>) \o Succeeded(Tail(stats))

\* C30 as stated: GetScoreAnalysis returns as topPlayers the stats of the
\* first min(L, number of leaderboard entries) players of the cached
\* leaderboard, in leaderboard order, where L is topPlayersLimit clamped into
\* [1, 10]; topPlayers never has more than L entries.
C30_TopPlayersClamped ==
    \A g \in GameIDs : \A limit \in AnalysisLimits :
        LET analysis == GetScoreAnalysis(db, g, limit)
        IN  analysis.err = "none" =>
                /\ analysis.topPlayers = StatsOfFirst(g, ClampedIntoRange(limit))
                /\ Len(analysis.topPlayers) <= ClampedIntoRange(limit)

\* C30, amended: whenever GetScoreAnalysis returns a result, topPlayers holds,
\* in leaderboard order, the stats of those of the first min(L, number of
\* leaderboard entries) players of the cached leaderboard for which
\* GetEnhancedPlayerStats succeeds, where L is topPlayersLimit when it lies in
\* [1, 10] and 10 otherwise; topPlayers never has more than L entries.
C30_TopPlayersLimitOrTen ==
    \A g \in GameIDs : \A limit \in AnalysisLimits :
        LET analysis == GetScoreAnalysis(db, g, limit)
        IN  analysis.err = "none" =>
                /\ analysis.topPlayers = Succeeded(StatsOfFirst(g, LimitOrTen(limit)))
                /\ Len(analysis.topPlayers) <= LimitOrTen(limit)

\* a submission has returned on a game with ten players on the leaderboard:
\* a limit of 0 gives ten top players, a limit of 2 the first two
C30_Witness ==
    /\ last.op = "SubmitScore" /\ last.err = "none"
    /\ Len(Board(last.game)) = MaxEntries
    /\ Len(GetScoreAnalysis(db, last.game, 0).topPlayers) = MaxEntries
    /\ Len(GetScoreAnalysis(db, last.game, 2).topPlayers) = 2
    /\ GetScoreAnalysis(db, last.game, 2).topPlayers[2].initials
         = Board(last.game)[2].initials

====
